---- MODULE Spec2Model ----
(***************************************************************************)
(* Model of py_make_name.py: the script that copies a library project to   *)
(* a sibling directory "<target>-py", rewrites setup.cfg and the sphinx    *)
(* conf.py, removes the stale .egg-info, renames the top-level packages,   *)
(* and finally removes the original directory (or rolls the copy back).    *)
(*                                                                         *)
(* Strings are sequences of one-character strings.  Optional[...] values   *)
(* are sequences of length 0 (None) or 1.                                  *)
(***************************************************************************)
EXTENDS Integers, Sequences, FiniteSets, TLC

\* ------------------------------------------------------------------ bounds

\* Largest number of top-level directories of the project.
MaxDirs == 2
\* Longest old library name, package directory name and target name drawn
\* for the name-substitution specification.
MaxOldLen == 1
MaxParentLen == 3
MaxTargetLen == 2

\* ----------------------------------------------------------------- strings

None == <<>>
Some(x) == <<x>>

UpperChars == <<"A", "B", "C", "Z", "D", "E", "V", "L", "O", "P">>
LowerChars == <<"a", "b", "c", "z", "d", "e", "v", "l", "o", "p">>

\* One character of str.lower().
LowerChar(c) ==
    IF \E k \in 1..Len(UpperChars) : UpperChars[k] = c
    THEN LowerChars[CHOOSE k \in 1..Len(UpperChars) : UpperChars[k] = c]
    ELSE c

\* str.lower()
Lower(s) == [k \in 1..Len(s) |-> LowerChar(s[k])]

\* `needle in hay` on str
Contains(hay, needle) ==
    \E k \in 0..(Len(hay) - Len(needle)) :
        SubSeq(hay, k + 1, k + Len(needle)) = needle

\* re.sub(pattern, repl, string, flags=re.IGNORECASE) for a non-empty pattern
\* made of literal characters: every non-overlapping match, left to right.
RECURSIVE ReSubFrom(_, _, _, _)
ReSubFrom(pattern, repl, string, k) ==
    IF k > Len(string) THEN <<>>
    ELSE IF /\ k + Len(pattern) - 1 <= Len(string)
            /\ Lower(SubSeq(string, k, k + Len(pattern) - 1)) = Lower(pattern)
         THEN repl \o ReSubFrom(pattern, repl, string, k + Len(pattern))
         ELSE <<string[k]>> \o ReSubFrom(pattern, repl, string, k + 1)

ReSub(pattern, repl, string) == ReSubFrom(pattern, repl, string, 1)

\* str.replace(token, new): every non-overlapping occurrence, case-sensitive.
RECURSIVE StrReplaceFrom(_, _, _, _)
StrReplaceFrom(text, token, new, k) ==
    IF k > Len(text) THEN <<>>
    ELSE IF /\ k + Len(token) - 1 <= Len(text)
            /\ SubSeq(text, k, k + Len(token) - 1) = token
         THEN new \o StrReplaceFrom(text, token, new, k + Len(token))
         ELSE <<text[k]>> \o StrReplaceFrom(text, token, new, k + 1)

StrReplace(text, token, new) == StrReplaceFrom(text, token, new, 1)

\* rename_packages' new name with re.sub applied to every package.
NewPackageNameNoBranch(old_name, parent_name, target_name) ==
    ReSub(parent_name, old_name, target_name)

\* The new directory name rename_packages computes for one package.
NewPackageName(old_name, parent_name, target_name) ==
    IF Contains(Lower(parent_name), Lower(old_name))
    THEN ReSub(parent_name, old_name, target_name)
    ELSE target_name

\* The directory name rename_packages never renames.
Zdevelop == <<"z", "d", "e", "v", "e", "l", "o", "p">>
ZdevelopUpper == <<"Z", "D", "e", "v", "e", "l", "o", "p">>

\* -------------------------------------------------------------- file system

\* Directory names under parent(original); a path is the directory's name.
PySuffix == <<"-", "p", "y">>
OrigPath == <<"o">> \o PySuffix

\* path_original.parent / f"{name_target}-py"
TargetPath(name_target) == name_target \o PySuffix

\* Target names passed on the command line; "o" names the original itself.
TargetNames == {<<"g">>, <<"o">>}
\* sys.argv[1:]: no argument, an empty argument, or a target name.
Argvs == {<<>>, <<(<<>>)>>} \cup {<<t>> : t \in TargetNames}
\* The paths a run can name: the original's, and a target's for each name.
Paths == {OrigPath} \cup {TargetPath(t) : t \in TargetNames \cup {<<>>}}
\* The paths where another directory may be before the run.
ForeignPaths == {TargetPath(t) : t \in TargetNames} \ {OrigPath}

\* setup.cfg: each section with the one option the script reads or writes.
Sections == {"metadata", "coverage:run", "coverage:html", "build_sphinx"}
NoSection == [st |-> "nosection", val |-> <<>>]
NoOption == [st |-> "nooption", val |-> <<>>]
Option(v) == [st |-> "set", val |-> v]
Title(name) == <<"coverage report for ">> \o name

\* ConfigParser.has_section / has_option / set on the loaded config.
HasSection(config, section) == config[section].st # "nosection"
HasOption(config, section) == config[section].st = "set"
ConfigSet(config, section, value) == [config EXCEPT ![section] = Option(value)]

\* The setup.cfg of a library named `name`.
CfgOf(name) ==
    [s \in Sections |->
        IF s = "coverage:html" THEN Option(Title(name)) ELSE Option(name)]

\* zdocs/source/conf-template and the conf.py generated from it.
Token == <<"{lib-name-goes-here}">>
TemplateText == <<"p", "=">> \o Token

\* Names of the library in setup.cfg and of its top-level directories.
OldNames == {<<"a">>, <<"u">>}
DirNames ==
    {<<"a">>, <<"a", "_", "c">>, <<"u">>, <<"g">>, Zdevelop, ZdevelopUpper}
\* A top-level directory holds an __init__.py ("pkg"), other files only
\* ("plain"), or nothing ("empty").
DirKinds == {"pkg", "plain", "empty"}

AbsentTree ==
    [st |-> "absent", cfg |-> [s \in Sections |-> NoSection], template |-> None,
     conf |-> None, egg |-> FALSE, dirs |-> <<>>]
\* What an interrupted copytree or rmtree leaves behind.
PartialTree == [AbsentTree EXCEPT !.st = "partial"]
\* A directory that is at the destination path before the run.
ForeignTree == [AbsentTree EXCEPT !.st = "full", !.cfg = CfgOf(<<"f">>)]

\* The configs a project may start with: complete, or lacking one section or
\* the name option.
StartCfgs ==
    {c \in [Sections -> {NoSection, NoOption} \cup {Option(n) : n \in OldNames}
                          \cup {Option(Title(n)) : n \in OldNames}] :
        /\ Cardinality({s \in Sections : c[s].st # "set"}) <= 1
        /\ \A s \in Sections \ {"metadata"} : c[s].st # "nooption"
        /\ \E n \in OldNames :
              \A s \in Sections : c[s].st = "set" => c[s] = CfgOf(n)[s]}

StartDirs ==
    UNION {[S -> DirKinds] : S \in {S \in SUBSET DirNames : Cardinality(S) <= MaxDirs}}

StartTrees ==
    {[st |-> "full", cfg |-> c, template |-> t, conf |-> None, egg |-> e, dirs |-> d] :
        c \in StartCfgs, t \in {None, Some(TemplateText)}, e \in BOOLEAN,
        d \in StartDirs}

Exists(t) == t.st # "absent"

\* ------------------------------------------------------------------- state

Procs == {1, 2}

VARIABLES
    tree,       \* the directories under parent(original), by path
    tree0,      \* the file system when the runs started
    argv,       \* sys.argv[1:] of each process
    pc,         \* where each process is
    si,         \* the ScriptInfo of each process
    cwd,        \* the working directory of each process
    old_name,   \* alter_new's old_name
    loop,       \* rename_packages' iteration: names left to visit, and i
    sub,        \* rename_packages' last old_name, parent_name, target_name, new_name
    err,        \* the exception in flight or escaped, and where it was raised
    stdout      \* what each process wrote to standard output

vars == <<tree, tree0, argv, pc, si, cwd, old_name, loop, sub, err, stdout>>

NewScriptInfo ==
    [name_target |-> None, name_original |-> None, path_original |-> None,
     path_target |-> None, new_created |-> FALSE]

NoSub == [old_name |-> None, parent_name |-> None, target_name |-> None,
          new_name |-> None]
NoLoop == [todo |-> {}, i |-> None]
NoError == [type |-> "", at |-> ""]
Error(type, at) == [type |-> type, at |-> at]

\* The state of the processes before main() runs; process 2 does not run.
InitProcs(args) ==
    /\ argv = args
    /\ pc = [r \in Procs |-> IF r = 1 THEN "load_target_name" ELSE "off"]
    /\ si = [r \in Procs |-> NewScriptInfo]
    /\ cwd = [r \in Procs |-> OrigPath]
    /\ old_name = [r \in Procs |-> None]
    /\ loop = [r \in Procs |-> NoLoop]
    /\ sub = NoSub
    /\ err = [r \in Procs |-> NoError]
    /\ stdout = [r \in Procs |-> <<>>]

Init ==
    /\ \E t \in StartTrees, pre \in SUBSET ForeignPaths :
          tree = [p \in Paths |->
                    IF p = OrigPath THEN t
                    ELSE IF p \in pre THEN ForeignTree ELSE AbsentTree]
    /\ tree0 = tree
    /\ \E a \in Argvs : InitProcs([r \in Procs |-> IF r = 1 THEN a ELSE <<>>])

\* ----------------------------------------------------------------- actions

\* `raise` inside main's try block: control goes to the except clause.
Raise(r, e) ==
    /\ err' = [err EXCEPT ![r] = Error(e, pc[r])]
    /\ pc' = [pc EXCEPT ![r] = "except"]

Goto(r, label) == pc' = [pc EXCEPT ![r] = label]

\* load_target_name without its check for an empty name.
LoadTargetNameNoEmptyCheck(r) ==
    /\ pc[r] = "load_target_name"
    /\ IF Len(argv[r]) < 1
       THEN /\ Raise(r, "ValueError")
            /\ UNCHANGED si
       ELSE /\ si' = [si EXCEPT ![r].name_target = Some(argv[r][1])]
            /\ Goto(r, "make_new_directory")
            /\ UNCHANGED err
    /\ UNCHANGED <<tree, tree0, argv, cwd, old_name, loop, sub, stdout>>

\* load_target_name: sys.argv[1] into name_target; ValueError if it is
\* missing or empty.
LoadTargetName(r) ==
    /\ pc[r] = "load_target_name"
    /\ IF Len(argv[r]) < 1
       THEN /\ Raise(r, "ValueError")
            /\ UNCHANGED si
       ELSE /\ si' = [si EXCEPT ![r].name_target = Some(argv[r][1])]
            /\ IF argv[r][1] = <<>>
               THEN Raise(r, "ValueError")
               ELSE Goto(r, "make_new_directory") /\ UNCHANGED err
    /\ UNCHANGED <<tree, tree0, argv, cwd, old_name, loop, sub, stdout>>

\* make_new_directory up to the existence check: the two paths, and
\* FileExistsError if the target path exists.
MakeNewDirectory(r) ==
    /\ pc[r] = "make_new_directory"
    /\ LET target == TargetPath(si[r].name_target[1]) IN
        /\ si' = [si EXCEPT ![r].path_original = Some(cwd[r]),
                            ![r].path_target = Some(target)]
        /\ IF Exists(tree[target])
           THEN Raise(r, "FileExistsError")
           ELSE Goto(r, "copytree") /\ UNCHANGED err
    /\ UNCHANGED <<tree, tree0, argv, cwd, old_name, loop, sub, stdout>>

\* shutil.copytree of the original to the target path, then new_created.
\* copytree raises before it creates anything (the target exists by now, the
\* source is gone), or after it has created the target directory (an entry
\* could not be copied), or it completes.
CopyTree(r) ==
    /\ pc[r] = "copytree"
    /\ LET src == si[r].path_original[1]
           dst == si[r].path_target[1] IN
        IF Exists(tree[dst])
        THEN Raise(r, "FileExistsError") /\ UNCHANGED <<tree, si>>
        ELSE IF tree[src].st # "full"
        THEN Raise(r, "FileNotFoundError") /\ UNCHANGED <<tree, si>>
        ELSE \/ /\ tree' = [tree EXCEPT ![dst] = tree[src]]
                /\ si' = [si EXCEPT ![r].new_created = TRUE]
                /\ Goto(r, "chdir")
                /\ UNCHANGED err
             \/ /\ tree' = [tree EXCEPT ![dst] = PartialTree]
                /\ Raise(r, "shutil.Error")
                /\ UNCHANGED si
    /\ UNCHANGED <<tree0, argv, cwd, old_name, loop, sub, stdout>>

\* main without its os.chdir: the later steps act on the original.
ChdirStay(r) ==
    /\ pc[r] = "chdir"
    /\ Goto(r, "edit_cfg")
    /\ UNCHANGED <<tree, tree0, argv, si, cwd, old_name, loop, sub, err, stdout>>

\* os.chdir(path_target)
Chdir(r) ==
    /\ pc[r] = "chdir"
    /\ cwd' = [cwd EXCEPT ![r] = si[r].path_target[1]]
    /\ Goto(r, "edit_cfg")
    /\ UNCHANGED <<tree, tree0, argv, si, old_name, loop, sub, err, stdout>>

\* edit_cfg: read ./setup.cfg, get metadata.name, set the four options in
\* memory (ConfigParser.set raises NoSectionError for an absent section),
\* write the file back and return the old name.
EditCfg(r) ==
    /\ pc[r] = "edit_cfg"
    /\ LET config == tree[cwd[r]].cfg
           target_name == si[r].name_target[1]
           c1 == ConfigSet(config, "metadata", target_name)
           c2 == ConfigSet(c1, "coverage:run", target_name)
           c3 == ConfigSet(c2, "coverage:html", Title(target_name))
           c4 == ConfigSet(c3, "build_sphinx", target_name) IN
        IF ~HasSection(config, "metadata")
        THEN Raise(r, "NoSectionError") /\ UNCHANGED <<tree, old_name>>
        ELSE IF ~HasOption(config, "metadata")
        THEN Raise(r, "NoOptionError") /\ UNCHANGED <<tree, old_name>>
        ELSE IF \E s \in Sections : ~HasSection(config, s)
        THEN Raise(r, "NoSectionError") /\ UNCHANGED <<tree, old_name>>
        ELSE /\ tree' = [tree EXCEPT ![cwd[r]].cfg = c4]
             /\ old_name' = [old_name EXCEPT ![r] = Some(config["metadata"].val)]
             /\ Goto(r, "rewrite_sphinx_conf")
             /\ UNCHANGED err
    /\ UNCHANGED <<tree0, argv, si, cwd, loop, sub, stdout>>

\* rewrite_sphinx_conf: conf.py is the template with the token replaced;
\* FileNotFoundError if the template is missing.
RewriteSphinxConf(r) ==
    /\ pc[r] = "rewrite_sphinx_conf"
    /\ LET t == tree[cwd[r]] IN
        IF t.template = None
        THEN Raise(r, "FileNotFoundError") /\ UNCHANGED tree
        ELSE /\ tree' = [tree EXCEPT ![cwd[r]].conf =
                            Some(StrReplace(t.template[1], Token, si[r].name_target[1]))]
             /\ Goto(r, "rmtree_egg")
             /\ UNCHANGED err
    /\ UNCHANGED <<tree0, argv, si, cwd, old_name, loop, sub, stdout>>

\* alter_new's removal of "<old_name>.egg-info": no error if it is not
\* there; if it is, the first rmtree removes it, or raises PermissionError
\* and the second rmtree, after the chmod, removes it or raises again (the
\* second is outside the try).
RemoveEggInfo(r) ==
    /\ pc[r] = "rmtree_egg"
    /\ IF ~tree[cwd[r]].egg
       THEN Goto(r, "rename_packages") /\ UNCHANGED <<tree, err>>
       ELSE \/ /\ tree' = [tree EXCEPT ![cwd[r]].egg = FALSE]
               /\ Goto(r, "rename_packages")
               /\ UNCHANGED err
            \/ /\ Raise(r, "PermissionError")
               /\ UNCHANGED tree
    /\ UNCHANGED <<tree0, argv, si, cwd, old_name, loop, sub, stdout>>

\* rename_packages before its first iteration: iglob lists the top-level
\* directory names once; i is None.
RenamePackagesBegin(r) ==
    /\ pc[r] = "rename_packages"
    /\ loop' = [loop EXCEPT ![r] = [todo |-> DOMAIN tree[cwd[r]].dirs, i |-> None]]
    /\ Goto(r, "rename_loop")
    /\ UNCHANGED <<tree, tree0, argv, si, cwd, old_name, sub, err, stdout>>

\* A rename that replaces whatever directory already has the new name.
CanRenameOverwrite(dirs, parent_name, new_name) == TRUE

\* pathlib.Path.rename of one top-level directory: onto itself nothing
\* happens; onto another existing directory it fails, except that POSIX
\* rename replaces an existing empty directory (MayReplace) where Windows
\* fails for it too.
CanRename(dirs, parent_name, new_name) ==
    new_name = parent_name \/ new_name \notin DOMAIN dirs

MayReplace(dirs, new_name) ==
    new_name \in DOMAIN dirs /\ dirs[new_name] = "empty"

Rename(dirs, parent_name, new_name) ==
    [n \in (DOMAIN dirs \ {parent_name}) \cup {new_name} |->
        IF n = new_name THEN dirs[parent_name] ELSE dirs[n]]

\* What the rename onto an existing directory raises: FileExistsError, or
\* (ENOTEMPTY) an OSError that the except clause around it does not match;
\* both leave rename_packages.
RenameErrors == {"FileExistsError", "OSError"}

\* A comparison with "zdevelop" that minds the letter case.
IsZdevelopExact(parent_name) == parent_name = Zdevelop

\* parent_name.lower() == "zdevelop"
IsZdevelop(parent_name) == Lower(parent_name) = Zdevelop

\* One iteration of rename_packages' loop, the listed names in any order: a
\* name with no __init__.py under it yields nothing; otherwise i is set, a
\* zdevelop is skipped, and the directory is renamed to the computed name,
\* which fails if another directory has that name (or, on POSIX, replaces it
\* if it is empty).
RenameIteration(r) ==
    /\ pc[r] = "rename_loop"
    /\ \E parent_name \in loop[r].todo :
        LET dirs == tree[cwd[r]].dirs
            rest == loop[r].todo \ {parent_name}
            i == IF loop[r].i = None THEN 1 ELSE loop[r].i[1] + 1
            target_name == si[r].name_target[1]
            new_name == NewPackageName(old_name[r][1], parent_name, target_name) IN
        IF ~(parent_name \in DOMAIN dirs /\ dirs[parent_name] = "pkg")
        THEN /\ loop' = [loop EXCEPT ![r].todo = rest]
             /\ UNCHANGED <<tree, sub, pc, err>>
        ELSE IF IsZdevelop(parent_name)
        THEN /\ loop' = [loop EXCEPT ![r] = [todo |-> rest, i |-> Some(i)]]
             /\ UNCHANGED <<tree, sub, pc, err>>
        ELSE /\ loop' = [loop EXCEPT ![r] = [todo |-> rest, i |-> Some(i)]]
             /\ sub' = [old_name |-> old_name[r], parent_name |-> Some(parent_name),
                        target_name |-> Some(target_name), new_name |-> Some(new_name)]
             /\ IF CanRename(dirs, parent_name, new_name)
                THEN /\ tree' = [tree EXCEPT ![cwd[r]].dirs =
                                    Rename(dirs, parent_name, new_name)]
                     /\ UNCHANGED <<pc, err>>
                ELSE \/ /\ MayReplace(dirs, new_name)
                        /\ tree' = [tree EXCEPT ![cwd[r]].dirs =
                                       Rename(dirs, parent_name, new_name)]
                        /\ UNCHANGED <<pc, err>>
                     \/ /\ \E e \in RenameErrors : Raise(r, e)
                        /\ UNCHANGED tree
    /\ UNCHANGED <<tree0, argv, si, cwd, old_name, stdout>>

\* rename_packages without its final check of i.
RenamePackagesEndNoCheck(r) ==
    /\ pc[r] = "rename_loop"
    /\ loop[r].todo = {}
    /\ Goto(r, "write_stdout")
    /\ UNCHANGED <<tree, tree0, argv, si, cwd, old_name, loop, sub, err, stdout>>

\* The end of rename_packages' loop: FileNotFoundError if i is still None.
RenamePackagesEnd(r) ==
    /\ pc[r] = "rename_loop"
    /\ loop[r].todo = {}
    /\ IF loop[r].i = None
       THEN Raise(r, "FileNotFoundError")
       ELSE Goto(r, "write_stdout") /\ UNCHANGED err
    /\ UNCHANGED <<tree, tree0, argv, si, cwd, old_name, loop, sub, stdout>>

\* sys.stdout.write(str(script_info.path_target))
WriteResult(r) ==
    /\ pc[r] = "write_stdout"
    /\ stdout' = [stdout EXCEPT ![r] = Append(@, si[r].path_target[1])]
    /\ Goto(r, "else")
    /\ UNCHANGED <<tree, tree0, argv, si, cwd, old_name, loop, sub, err>>

\* main's except clause without the rmtree.
ExceptNoRollback(r) ==
    /\ pc[r] = "except"
    /\ Goto(r, "__main__ except")
    /\ UNCHANGED <<tree, tree0, argv, si, cwd, old_name, loop, sub, err, stdout>>

\* main's except clause without the test of new_created.
ExceptAlwaysRemove(r) ==
    /\ pc[r] = "except"
    /\ IF si[r].path_target # None
       THEN tree' = [tree EXCEPT ![si[r].path_target[1]] = AbsentTree]
       ELSE UNCHANGED tree
    /\ Goto(r, "__main__ except")
    /\ UNCHANGED <<tree0, argv, si, cwd, old_name, loop, sub, err, stdout>>

\* main with the rmtree of the original moved from the else clause into the
\* except clause's path as well (as a finally clause would run it).
ExceptAsFinally(r) ==
    /\ pc[r] = "except"
    /\ tree' = [p \in Paths |->
                  IF si[r].new_created /\ p = si[r].path_target[1] THEN AbsentTree
                  ELSE IF si[r].path_original # None /\ p = si[r].path_original[1]
                  THEN AbsentTree
                  ELSE tree[p]]
    /\ Goto(r, "__main__ except")
    /\ UNCHANGED <<tree0, argv, si, cwd, old_name, loop, sub, err, stdout>>

\* main's except clause: remove the target tree if this run created it, and
\* raise the error again.
Except(r) ==
    /\ pc[r] = "except"
    /\ IF si[r].new_created
       THEN tree' = [tree EXCEPT ![si[r].path_target[1]] = AbsentTree]
       ELSE UNCHANGED tree
    /\ Goto(r, "__main__ except")
    /\ UNCHANGED <<tree0, argv, si, cwd, old_name, loop, sub, err, stdout>>

\* main without the rmtree of the original in its else clause.
ElseKeepOriginal(r) ==
    /\ pc[r] = "else"
    /\ Goto(r, "done")
    /\ UNCHANGED <<tree, tree0, argv, si, cwd, old_name, loop, sub, err, stdout>>

\* main's else clause: shutil.rmtree of the original.  It completes, or it
\* raises having removed nothing or a part of the tree; an error raised here
\* is not handled by main's except clause.
Else(r) ==
    /\ pc[r] = "else"
    /\ LET original == si[r].path_original[1] IN
        IF ~Exists(tree[original])
        THEN /\ err' = [err EXCEPT ![r] = Error("FileNotFoundError", "else")]
             /\ Goto(r, "__main__ except")
             /\ UNCHANGED tree
        ELSE \/ /\ tree' = [tree EXCEPT ![original] = AbsentTree]
                /\ Goto(r, "done")
                /\ UNCHANGED err
             \/ /\ \E left \in {tree[original], PartialTree} :
                      tree' = [tree EXCEPT ![original] = left]
                /\ err' = [err EXCEPT ![r] = Error("OSError", "else")]
                /\ Goto(r, "__main__ except")
    /\ UNCHANGED <<tree0, argv, si, cwd, old_name, loop, sub, stdout>>

\* The except clause under `if __name__ == "__main__"` without its write.
MainExceptSilent(r) ==
    /\ pc[r] = "__main__ except"
    /\ Goto(r, "done")
    /\ UNCHANGED <<tree, tree0, argv, si, cwd, old_name, loop, sub, err, stdout>>

\* The except clause under `if __name__ == "__main__"`: write "0" and raise.
MainExcept(r) ==
    /\ pc[r] = "__main__ except"
    /\ stdout' = [stdout EXCEPT ![r] = Append(@, <<"0">>)]
    /\ Goto(r, "done")
    /\ UNCHANGED <<tree, tree0, argv, si, cwd, old_name, loop, sub, err>>

Step(r) ==
    \/ LoadTargetName(r)
    \/ MakeNewDirectory(r)
    \/ CopyTree(r)
    \/ Chdir(r)
    \/ EditCfg(r)
    \/ RewriteSphinxConf(r)
    \/ RemoveEggInfo(r)
    \/ RenamePackagesBegin(r)
    \/ RenameIteration(r)
    \/ RenamePackagesEnd(r)
    \/ WriteResult(r)
    \/ Except(r)
    \/ Else(r)
    \/ MainExcept(r)

Next == \E r \in Procs : Step(r)

Spec == Init /\ [][Next]_vars

\* ---------------------------------------------- name substitution alone

\* The characters of the names drawn below.
Alphabet == {"a", "A", "b"}
NamesUpTo(n) == UNION {[1..k -> Alphabet] : k \in 1..n}

\* No process runs; old_name, parent_name and target_name are any names.
InitNames ==
    /\ tree = [p \in Paths |-> AbsentTree]
    /\ tree0 = tree
    /\ argv = [r \in Procs |-> <<>>]
    /\ pc = [r \in Procs |-> "off"]
    /\ si = [r \in Procs |-> NewScriptInfo]
    /\ cwd = [r \in Procs |-> OrigPath]
    /\ old_name = [r \in Procs |-> None]
    /\ loop = [r \in Procs |-> NoLoop]
    /\ err = [r \in Procs |-> NoError]
    /\ stdout = [r \in Procs |-> <<>>]
    /\ \E o \in NamesUpTo(MaxOldLen), p \in NamesUpTo(MaxParentLen),
          t \in NamesUpTo(MaxTargetLen) :
          sub = [old_name |-> Some(o), parent_name |-> Some(p),
                 target_name |-> Some(t), new_name |-> None]

\* rename_packages' computation of new_name for one package directory.
Substitute ==
    /\ sub.new_name = None
    /\ sub' = [sub EXCEPT !.new_name =
                  Some(NewPackageName(sub.old_name[1], sub.parent_name[1],
                                      sub.target_name[1]))]
    /\ UNCHANGED <<tree, tree0, argv, pc, si, cwd, old_name, loop, err, stdout>>

NextNames == Substitute

SpecNames == InitNames /\ [][NextNames]_vars

\* ----------------------------------------------------- two runs at once

\* The top-level directories of the project two runs are started in: none,
\* one package, or one package next to an empty directory.
ConcDirs ==
    {d \in StartDirs :
        \/ d = <<>>
        \/ DOMAIN d = {<<"a">>} /\ d[<<"a">>] = "pkg"
        \/ DOMAIN d = {<<"a">>, <<"g">>} /\ d[<<"a">>] = "pkg" /\ d[<<"g">>] = "empty"}

\* The target name both runs are given.
ConcTarget == <<"g">>

\* Two invocations of the script in the same project directory with the same
\* target name, neither yet past its first statement; the destination does
\* not exist.
InitConc ==
    /\ \E t \in StartTrees :
          /\ t.dirs \in ConcDirs
          /\ tree = [p \in Paths |-> IF p = OrigPath THEN t ELSE AbsentTree]
    /\ tree0 = tree
    /\ argv = [r \in Procs |-> <<ConcTarget>>]
    /\ pc = [r \in Procs |-> "load_target_name"]
    /\ si = [r \in Procs |-> NewScriptInfo]
    /\ cwd = [r \in Procs |-> OrigPath]
    /\ old_name = [r \in Procs |-> None]
    /\ loop = [r \in Procs |-> NoLoop]
    /\ sub = NoSub
    /\ err = [r \in Procs |-> NoError]
    /\ stdout = [r \in Procs |-> <<>>]

\* The two processes run main() step by step in any interleaving; a process
\* that has a next statement to run gets to run it.
SpecConc == InitConc /\ [][Next]_vars /\ \A r \in Procs : WF_vars(Step(r))

\* ------------------------------------------------------------------ claims

Done(r) == pc[r] = "done"
Succeeded(r) == pc[r] = "done" /\ err[r] = NoError
Failed(r) == pc[r] = "done" /\ err[r] # NoError

\* The run was given a non-empty target name.
HasTarget(r) == Len(argv[r]) >= 1 /\ argv[r][1] # <<>>
\* The destination path of a run that was given a target name.
Destination(r) == TargetPath(argv[r][1])

\* The steps of alter_new, any of which may raise after the copy was made.
LaterSteps == {"edit_cfg", "rewrite_sphinx_conf", "rmtree_egg", "rename_loop"}
\* The steps that come before rename_packages.
StepsBeforeRename ==
    {"load_target_name", "make_new_directory", "copytree", "edit_cfg",
     "rewrite_sphinx_conf", "rmtree_egg"}

\* C1: after a run with target name T that terminates successfully, the
\* destination parent(original)/"T-py" exists, the original directory does
\* not, and the destination's setup.cfg has metadata.name, coverage:run.source
\* and build_sphinx.project equal to T.
C1_SuccessPostcondition ==
    \A r \in Procs :
        Succeeded(r) =>
            /\ HasTarget(r)
            /\ tree[Destination(r)].st = "full"
            /\ ~Exists(tree[OrigPath])
            /\ tree[Destination(r)].cfg["metadata"] = Option(argv[r][1])
            /\ tree[Destination(r)].cfg["coverage:run"] = Option(argv[r][1])
            /\ tree[Destination(r)].cfg["build_sphinx"] = Option(argv[r][1])

C1_Witness ==
    \E r \in Procs :
        /\ Succeeded(r)
        /\ tree0[OrigPath].cfg["metadata"] # Option(argv[r][1])
        /\ tree0[OrigPath].egg

C3_OriginalUntouchedOnAnyFailure ==
    \A r \in Procs : Failed(r) => tree[OrigPath] = tree0[OrigPath]

\* C3 as amended: for every run that terminates with an error raised by any
\* step before the final deletion of the original, the original tree and its
\* config values are the same at termination as at start.
C3_OriginalUntouchedBeforeCommit ==
    \A r \in Procs :
        (Failed(r) /\ err[r].at # "else") => tree[OrigPath] = tree0[OrigPath]

C3_Witness ==
    \E r \in Procs :
        /\ Failed(r)
        /\ err[r].at = "rename_loop"
        /\ tree[OrigPath] = tree0[OrigPath]
        /\ tree0[OrigPath].egg

\* The destination path of the run exists before the run.
DestinationPreExists(r) == HasTarget(r) /\ Exists(tree0[Destination(r)])

\* C4: if the destination path exists when the run starts, the run fails
\* with FileExistsError at the existence check: nothing is copied or deleted
\* (the file system stays as it was, the directory found at the destination
\* included), new_created stays false.
C4_DestinationExistsIsFatal ==
    \A r \in Procs :
        (pc[r] # "off" /\ DestinationPreExists(r)) =>
            /\ tree = tree0
            /\ ~si[r].new_created
            /\ pc[r] \in {"load_target_name", "make_new_directory", "except",
                          "__main__ except", "done"}
            /\ pc[r] \in {"except", "__main__ except", "done"} =>
                  err[r] = Error("FileExistsError", "make_new_directory")

C4_Witness ==
    \E r \in Procs :
        /\ Done(r)
        /\ DestinationPreExists(r)
        /\ tree0[Destination(r)] = ForeignTree
        /\ tree[Destination(r)] = ForeignTree

\* C5: if the target name is missing or empty, the run fails with ValueError
\* in load_target_name and the file system is never changed: no directory is
\* created, nothing is deleted, no file is written.
C5_MissingTargetIsFatal ==
    \A r \in Procs :
        (pc[r] # "off" /\ ~HasTarget(r)) =>
            /\ tree = tree0
            /\ ~si[r].new_created
            /\ pc[r] \in {"load_target_name", "except", "__main__ except", "done"}
            /\ pc[r] # "load_target_name" =>
                  err[r] = Error("ValueError", "load_target_name")

C5_Witness ==
    \E r \in Procs : Done(r) /\ argv[r] = <<(<<>>)>> /\ err[r].type = "ValueError"

\* The place of the first case-insensitive occurrence of old in pkg.
FirstOccurrence(old, pkg) ==
    CHOOSE k \in 1..(Len(pkg) - Len(old) + 1) :
        /\ Lower(SubSeq(pkg, k, k + Len(old) - 1)) = Lower(old)
        /\ \A j \in 1..(k - 1) : Lower(SubSeq(pkg, j, j + Len(old) - 1)) # Lower(old)

\* pkg with the first case-insensitive occurrence of old replaced by new.
ReplaceFirst(old, pkg, new) ==
    LET k == FirstOccurrence(old, pkg) IN
    SubSeq(pkg, 1, k - 1) \o new \o SubSeq(pkg, k + Len(old), Len(pkg))

\* C6: if the package name case-insensitively contains the old library name,
\* the new package name is the package name with the first case-insensitive
\* occurrence of the old name replaced by the target name, the text around it
\* kept.
C6_EmbeddedNameReplaced ==
    (/\ sub.new_name # None
     /\ Contains(Lower(sub.parent_name[1]), Lower(sub.old_name[1]))) =>
        sub.new_name[1] =
            ReplaceFirst(sub.old_name[1], sub.parent_name[1], sub.target_name[1])

\* C7: if the package name does not case-insensitively contain the old
\* library name, the new package name is exactly the target name.
C7_UnrelatedNameBecomesTarget ==
    (/\ sub.new_name # None
     /\ ~Contains(Lower(sub.parent_name[1]), Lower(sub.old_name[1]))) =>
        sub.new_name[1] = sub.target_name[1]

C7_Witness ==
    /\ sub.new_name # None
    /\ ~Contains(Lower(sub.parent_name[1]), Lower(sub.old_name[1]))
    /\ Contains(Lower(sub.target_name[1]), Lower(sub.parent_name[1]))
    /\ sub.new_name[1] = sub.target_name[1]

\* s starts with p.
IsPrefix(p, s) == Len(p) <= Len(s) /\ SubSeq(s, 1, Len(p)) = p

\* The original is a library named N whose top-level directories are all
\* packages, N and N with distinct suffixes.
SuffixPackagesOnly(t) ==
    /\ t.cfg = CfgOf(t.cfg["metadata"].val)
    /\ t.cfg["metadata"].val \in DOMAIN t.dirs
    /\ Cardinality(DOMAIN t.dirs) >= 2
    /\ \A d \in DOMAIN t.dirs :
          t.dirs[d] = "pkg" /\ IsPrefix(t.cfg["metadata"].val, d)

\* Each package name with the library name at its start replaced by T.
SuffixPackagesRenamed(t, T) ==
    {T \o SubSeq(d, Len(t.cfg["metadata"].val) + 1, Len(d)) : d \in DOMAIN t.dirs}

\* C8: for a library named N whose top-level packages are N and N with
\* suffixes, rename_packages raises no error, and once it has returned the
\* destination's packages are T and T with the same suffixes.
C8_SuffixPackagesKeepSuffix ==
    \A r \in Procs :
        (HasTarget(r) /\ SuffixPackagesOnly(tree0[OrigPath])) =>
            /\ err[r].at # "rename_loop"
            /\ (pc[r] \in {"write_stdout", "else"} \/ Succeeded(r)) =>
                  DOMAIN tree[Destination(r)].dirs =
                      SuffixPackagesRenamed(tree0[OrigPath], argv[r][1])

\* No top-level directory of the tree holds an __init__.py.
NoPackages(t) == \A d \in DOMAIN t.dirs : t.dirs[d] # "pkg"

C10_OutcomeOnStdout ==
    \A r \in Procs :
        /\ Succeeded(r) => stdout[r] = <<Destination(r)>>
        /\ Failed(r) =>
              /\ Len(stdout[r]) >= 1
              /\ stdout[r][Len(stdout[r])] = <<"0">>

C10_Witness ==
    \E r \in Procs :
        /\ Failed(r)
        /\ err[r].at = "rename_loop"
        /\ stdout[r] = <<(<<"0">>)>>

\* Every step before the final deletion has completed for run r: the copy was
\* made and entered, the config and the docs config were written, the
\* packages were walked, and the path was written to stdout.
StepsCompleted(r) ==
    /\ si[r].new_created
    /\ cwd[r] = Destination(r)
    /\ tree[Destination(r)].st = "full"
    /\ tree[Destination(r)].cfg["metadata"] = Option(argv[r][1])
    /\ tree[Destination(r)].conf # None
    /\ old_name[r] # None
    /\ loop[r].todo = {} /\ loop[r].i # None
    /\ stdout[r] = <<Destination(r)>>

\* C11: the original tree changes only in a step taken by a run that has
\* completed every other step without error (the final deletion), and once
\* the original has changed no run has an error raised by one of those steps.
C11_OriginalDeletedLast ==
    /\ [](tree[OrigPath] # tree0[OrigPath] =>
            \A r \in Procs : err[r].at \in {"", "else"})
    /\ [][tree'[OrigPath] # tree[OrigPath] =>
            \E r \in Procs :
                /\ pc[r] = "else" /\ pc'[r] # "else"
                /\ err[r] = NoError
                /\ StepsCompleted(r)]_vars

C11_Witness ==
    \E r \in Procs :
        /\ Done(r)
        /\ StepsCompleted(r)
        /\ tree0[OrigPath].st = "full"
        /\ tree[OrigPath] = AbsentTree

\* Run r is in rename_packages' loop and package p of its working tree is
\* due a rename onto another directory that exists there.
Collides(r, p) ==
    LET dirs == tree[cwd[r]].dirs IN
    /\ pc[r] = "rename_loop"
    /\ p \in DOMAIN dirs
    /\ dirs[p] = "pkg"
    /\ Lower(p) # Zdevelop
    /\ NewPackageName(old_name[r][1], p, argv[r][1]) \in DOMAIN dirs \ {p}

\* The same, and the directory that has the new name is not empty.
CollidesNonEmpty(r, p) ==
    /\ Collides(r, p)
    /\ tree[cwd[r]].dirs[NewPackageName(old_name[r][1], p, argv[r][1])] # "empty"

\* The iteration of run r for package p raises and changes no directory.
RenameRaises(r, p) ==
    (pc[r] = "rename_loop" /\ p \in loop[r].todo /\ p \notin loop'[r].todo) =>
        /\ tree' = tree
        /\ pc'[r] = "except"
        /\ err'[r].type \in RenameErrors
        /\ err'[r].at = "rename_loop"

\* A run that ended with the error of a rename has no destination tree, its
\* original is as it was, and it has written "0".
RenameErrorRolledBack ==
    \A r \in Procs :
        (/\ err[r].type \in RenameErrors
         /\ err[r].at = "rename_loop"
         /\ pc[r] \in {"__main__ except", "done"}) =>
            /\ ~Exists(tree[Destination(r)])
            /\ tree[OrigPath] = tree0[OrigPath]
            /\ (Done(r) => stdout[r] = <<(<<"0">>)>>)

C13_PartialCopyCleanedUp ==
    \A r \in Procs :
        /\ (/\ err[r].at = "copytree"
            /\ pc[r] \in {"__main__ except", "done"}
            /\ ~Exists(tree0[Destination(r)])) =>
                ~Exists(tree[Destination(r)])
        /\ (/\ pc[r] = "except"
            /\ HasTarget(r)
            /\ ~Exists(tree0[Destination(r)])
            /\ Exists(tree[Destination(r)])) =>
                si[r].new_created

\* No top-level directory of the tree qualifies for renaming: none holds an
\* __init__.py, apart from directories named zdevelop in any letter case.
NoQualifyingPackages(t) ==
    \A d \in DOMAIN t.dirs : t.dirs[d] = "pkg" => Lower(d) = Zdevelop

\* C14: a run against a project with no qualifying directory (in particular
\* one whose only directory with an __init__.py is zdevelop) never passes
\* rename_packages: it ends with FileNotFoundError raised there and the
\* destination tree deleted, unless an earlier step failed.
C14_NoQualifyingPackagesFound ==
    \A r \in Procs :
        NoQualifyingPackages(tree0[OrigPath]) =>
            /\ pc[r] \notin {"write_stdout", "else"}
            /\ ~Succeeded(r)
            /\ (Done(r) /\ err[r].at \notin StepsBeforeRename) =>
                  /\ err[r] = Error("FileNotFoundError", "rename_loop")
                  /\ ~Exists(tree[Destination(r)])

\* The top-level directories of the tree named zdevelop in any letter case.
ZdevelopDirs(t) == {d \in DOMAIN t.dirs : Lower(d) = Zdevelop}

\* C15: in the copy a run has made, every top-level directory named zdevelop
\* in any letter case, with or without an __init__.py, is there under its
\* original name at every step, and so after a successful run.
C15_ZdevelopKeepsItsName ==
    \A r \in Procs :
        (si[r].new_created /\ tree[Destination(r)].st = "full") =>
            \A d \in ZdevelopDirs(tree0[OrigPath]) :
                /\ d \in DOMAIN tree[Destination(r)].dirs
                /\ tree[Destination(r)].dirs[d] = tree0[OrigPath].dirs[d]

C15_Witness ==
    \E r \in Procs :
        /\ Succeeded(r)
        /\ ZdevelopUpper \in DOMAIN tree0[OrigPath].dirs
        /\ tree0[OrigPath].dirs[ZdevelopUpper] = "pkg"
        /\ <<"a">> \in DOMAIN tree0[OrigPath].dirs
        /\ DOMAIN tree[Destination(r)].dirs = {ZdevelopUpper, argv[r][1]}

\* C16: the removal of "<old_name>.egg-info" never makes the run fail: no
\* run has an error raised by that step, and a run past it has no .egg-info
\* directory in its copy.
C16_EggRemovalNeverFails ==
    \A r \in Procs :
        /\ err[r].at # "rmtree_egg"
        /\ pc[r] \in {"rename_packages", "rename_loop", "write_stdout", "else"} =>
              ~tree[cwd[r]].egg

\* C17: for a config that has metadata.name, edit_cfg never fails, whichever
\* of the sections coverage:run, coverage:html and build_sphinx the file
\* lacks: it creates the section and sets the key, so a run past edit_cfg has
\* all four options set in its copy.
C17_SetCreatesSection ==
    \A r \in Procs :
        (HasTarget(r) /\ HasOption(tree0[OrigPath].cfg, "metadata")) =>
            /\ err[r].at # "edit_cfg"
            /\ pc[r] \in {"rewrite_sphinx_conf", "rmtree_egg", "rename_packages",
                          "rename_loop", "write_stdout", "else"} =>
                  \A s \in Sections : HasOption(tree[cwd[r]].cfg, s)

\* C18: the path is on stdout only for runs that end without error, and at
\* no time has a run written both the path and "0".
C18_PathOnlyOnSuccess ==
    \A r \in Procs :
        LET wrotePath == /\ si[r].path_target # None
                         /\ \E k \in 1..Len(stdout[r]) :
                               stdout[r][k] = si[r].path_target[1]
            wroteZero == \E k \in 1..Len(stdout[r]) : stdout[r][k] = <<"0">> IN
        /\ ~(wrotePath /\ wroteZero)
        /\ (Done(r) /\ wrotePath) => err[r] = NoError

\* The destination of the two runs started together.
ConcDestination == TargetPath(ConcTarget)

\* Run r took the step.
Stepped(r) == pc'[r] # pc[r] \/ loop'[r] # loop[r]

\* Both runs have passed the check and neither has begun its copy.
BothAtCopy ==
    /\ \A r \in Procs : pc[r] = "copytree"
    /\ ~Exists(tree[ConcDestination])

\* Run r has created the destination and has not rolled it back.
Holds(r) ==
    /\ si[r].new_created
    /\ ~(pc[r] \in {"__main__ except", "done"} /\ err[r].at \in LaterSteps)

\* A run that has not created the destination leaves an existing destination
\* as it is, and the destination is deleted only by the except clause of the
\* run that created it.
OnlyCreatorDeletes ==
    \A r \in Procs :
        Stepped(r) =>
            /\ (~si[r].new_created /\ Exists(tree[ConcDestination])) =>
                  tree'[ConcDestination] = tree[ConcDestination]
            /\ (Exists(tree[ConcDestination]) /\ ~Exists(tree'[ConcDestination])) =>
                  pc[r] = "except" /\ Holds(r)

\* C19 as stated: a run deletes the destination only if it created it, and
\* of two runs with the same destination that both passed the existence
\* check before either copy began at most one ever creates it and sets
\* new_created; the other does not delete or change it.
C19_AtMostOneRunCreates ==
    /\ [][OnlyCreatorDeletes]_vars
    /\ [](BothAtCopy => [](~\A r \in Procs : si[r].new_created))

\* C19 as amended: a run deletes the destination only if it created it and
\* a run that has not created it does not delete or change it; at no time do
\* two runs both have a destination they created and have not rolled back;
\* and of two runs that both passed the existence check before either copy
\* began, one that creates nothing has failed in its copy.
C19_OneCreatorAtATime ==
    /\ [][OnlyCreatorDeletes]_vars
    /\ [](~\A r \in Procs : Holds(r))
    /\ [](BothAtCopy =>
            [](\A r \in Procs :
                  (~si[r].new_created /\ pc[r] # "copytree") =>
                      err[r].at = "copytree"))

C19_Witness ==
    \E r1, r2 \in Procs :
        /\ r1 # r2
        /\ Succeeded(r1)
        /\ Done(r2)
        /\ err[r2] = Error("FileExistsError", "copytree")
        /\ ~si[r2].new_created
        /\ tree[ConcDestination].st = "full"

====
